---- MODULE Spec2Model ----
(***************************************************************************)
(* Model of src/src/prox-max-norm.ipynb: the bisection root finder         *)
(* get_root, the max-norm proximal operator prox_max_norm, the rank        *)
(* projector proj_rank, the fixed-point step T and the driver              *)
(* compute_low_rank_est.                                                   *)
(*                                                                         *)
(* Numbers.  The code computes in IEEE double precision.  The model        *)
(* computes on a grid: every number is an integer multiple of one unit     *)
(* (one unit = the spacing of representable values around the numbers at   *)
(* hand).  Sums, differences, maxima and comparisons of grid numbers are   *)
(* exact; the one operation of the code whose exact result can fall        *)
(* between two representable values, the midpoint 0.5 * (t_lo + t_hi), is  *)
(* rounded to the nearest grid point, ties to even, as IEEE arithmetic     *)
(* rounds.                                                                 *)
(*                                                                         *)
(* Matrices.  A matrix is represented by its diagonal: the model covers    *)
(* the N x N diagonal matrices, a family that every operation of the code  *)
(* maps into itself and on which the singular value decomposition is       *)
(* known in closed form (the singular values are the absolute values of    *)
(* the diagonal).  The off-diagonal zeros contribute nothing to            *)
(* np.sum(np.abs(x)), np.max(np.abs(x)) or np.maximum(np.abs(x) - t, 0)    *)
(* for t >= 0, and prox_max_norm maps a zero entry to zero.                *)
(***************************************************************************)
EXTENDS Integers, Sequences, FiniteSets

\* ---- bounds of the model ----
N == 2          \* matrices are N x N diagonal; vectors have N entries
MaxVal == 2     \* entries of the inputs are drawn from -MaxVal..MaxVal
MaxLambd == 2   \* lambd is drawn from -1..MaxLambd
MaxIters == 2   \* iters is drawn from -1..MaxIters

\* ---- tol = 1.0e-10, kept as 1 / (TolDenHi * TolDenLo) ----
TolDenHi == 100000
TolDenLo == 100000
TolDefault == <<TolDenHi, TolDenLo>>
\* tolerances a direct caller of get_root passes: the default, 1/2 and 1
Tols == {TolDefault, <<1, 2>>, <<1, 1>>}

VARIABLES
    entry,      \* the function called from outside
    pc,         \* the statement about to be executed
    exc,        \* the exception raised, "none" if none
    x,          \* argument x of prox_max_norm / get_root
    lambd,      \* argument lambd (driver, T, prox_max_norm, get_root: the same value is passed down)
    tol,        \* argument tol of get_root
    t_lo, t_hi, t, res, converge,   \* locals of get_root
    alpha,      \* value returned by get_root
    prox,       \* value returned by prox_max_norm
    gD,         \* the notebook's module-level name D, which T reads
    D, r, iters,                    \* arguments of compute_low_rank_est
    k, Z, Z_p, X, Xbound,           \* locals of compute_low_rank_est (X, Z also of T)
    err_max, err_fro, rank, norm,   \* the four diagnostic arrays
    nT,         \* history: number of calls of T
    nwrites     \* history: number of writes to each index of the diagnostic arrays

vars == <<entry, pc, exc, x, lambd, tol, t_lo, t_hi, t, res, converge, alpha, prox,
          gD, D, r, iters, k, Z, Z_p, X, Xbound, err_max, err_fro, rank, norm, nT, nwrites>>

rootVars == <<t_lo, t_hi, t, res, converge>>
driverVars == <<gD, D, r, iters, k, Z, Z_p, X, Xbound, err_max, err_fro, rank, norm, nT, nwrites>>

\* ---- arithmetic helpers ----
Abs(v) == IF v < 0 THEN -v ELSE v
Sign(v) == IF v > 0 THEN 1 ELSE IF v < 0 THEN -1 ELSE 0
Max2(a, b) == IF a >= b THEN a ELSE b
Min2(a, b) == IF a <= b THEN a ELSE b

RECURSIVE SumTo(_, _)
SumTo(s, n) == IF n = 0 THEN 0 ELSE s[n] + SumTo(s, n - 1)
Sum(s) == SumTo(s, Len(s))

RECURSIVE MaxTo(_, _)
MaxTo(s, n) == IF n = 1 THEN s[1] ELSE Max2(s[n], MaxTo(s, n - 1))

VAbs(a) == [i \in 1..Len(a) |-> Abs(a[i])]
VAdd(a, b) == [i \in 1..Len(a) |-> a[i] + b[i]]
VSub(a, b) == [i \in 1..Len(a) |-> a[i] - b[i]]
VScale(c, a) == [i \in 1..Len(a) |-> c * a[i]]
Zeros(n) == [i \in 1..n |-> 0]

\* np.sum(np.abs(x))
L1(a) == Sum(VAbs(a))
\* np.max(np.abs(x))
MaxAbs(a) == MaxTo(VAbs(a), Len(a))
\* sum of squares: np.linalg.norm(., ord='fro') is its square root
SumSq(a) == Sum([i \in 1..Len(a) |-> a[i] * a[i]])


\* ---- get_root (lines 36-51) ----

\* line 44: t = 0.5 * (t_lo + t_hi), rounded to the grid, ties to even
Midpoint(lo, hi) ==
    LET s == lo + hi
        q == s \div 2
    IN IF s % 2 = 0 THEN q ELSE IF q % 2 = 0 THEN q ELSE q + 1

\* line 45: res = np.sum(np.maximum(np.abs(x) - t, 0)) - lambd
Residual(xv, tv, lam) == Sum([i \in 1..Len(xv) |-> Max2(Abs(xv[i]) - tv, 0)]) - lam

MoveLo_reversed(rs) == rs < 0
\* line 46: if res > 0 (then t_lo = t, else t_hi = t)
MoveLo(rs) == rs > 0

\* line 50: np.abs(res) < tol * lambd, with tol = 1 / (tl[1] * tl[2]).
\* For res # 0 the test |res| * tl[1] * tl[2] < lam forces tl[1] <= lam and
\* tl[2] <= lam, so the product is formed only when it is small.
Converged(rs, lam, tl) ==
    IF rs = 0 THEN 0 < lam
    ELSE /\ tl[1] <= lam
         /\ tl[2] <= lam
         /\ Abs(rs) * tl[1] * tl[2] < lam

RootReturn_lo(lo, hi, mid) == lo
\* line 51: return t
RootReturn(lo, hi, mid) == mid

\* lines 39-42
get_root_init ==
    /\ pc = "get_root"
    /\ t_lo' = 0
    /\ t_hi' = MaxAbs(x)
    /\ converge' = FALSE
    /\ pc' = "while"
    /\ UNCHANGED <<entry, exc, x, lambd, tol, t, res, alpha, prox>>
    /\ UNCHANGED driverVars

\* line 43: while not converge, with converge still False: the body is entered
get_root_while ==
    /\ pc = "while"
    /\ ~converge
    /\ pc' = "body"
    /\ UNCHANGED <<entry, exc, x, lambd, tol, alpha, prox>>
    /\ UNCHANGED rootVars
    /\ UNCHANGED driverVars

\* lines 44-50: the body of the while loop, then back to the test of line 43
get_root_body ==
    /\ pc = "body"
    /\ LET tn == Midpoint(t_lo, t_hi)
           rn == Residual(x, tn, lambd)
       IN /\ t' = tn
          /\ res' = rn
          /\ t_lo' = IF MoveLo(rn) THEN tn ELSE t_lo
          /\ t_hi' = IF MoveLo(rn) THEN t_hi ELSE tn
          /\ converge' = Converged(rn, lambd, tol)
    /\ pc' = "while"
    /\ UNCHANGED <<entry, exc, x, lambd, tol, alpha, prox>>
    /\ UNCHANGED driverVars

\* lines 43 and 51: converge is True, the loop is left and t is returned to the caller (line 61 binds it to alpha)
get_root_return ==
    /\ pc = "while"
    /\ converge
    /\ alpha' = RootReturn(t_lo, t_hi, t)
    /\ pc' = IF entry = "get_root" THEN "done" ELSE "prox_else"
    /\ UNCHANGED <<entry, exc, x, lambd, tol, prox>>
    /\ UNCHANGED rootVars
    /\ UNCHANGED driverVars

\* ---- prox_max_norm (lines 54-63) ----

ProxIsZero_strict(l1_norm, lam) == l1_norm < lam
\* line 58: if l1_norm <= lambd
ProxIsZero(l1_norm, lam) == l1_norm <= lam

\* line 62: x - np.sign(x) * np.maximum(np.abs(x) - alpha, 0)
ProxValue(xv, a) == [i \in 1..Len(xv) |-> xv[i] - Sign(xv[i]) * Max2(Abs(xv[i]) - a, 0)]

\* where prox_max_norm returns to: its outside caller, or line 82 of T
ProxReturnTo == IF entry = "prox_max_norm" THEN "done" ELSE "T_update"

\* lines 57-61: the test, the zero result (line 59) or the call of get_root (line 61)
prox_max_norm_test ==
    /\ pc = "prox_max_norm"
    /\ IF ProxIsZero(L1(x), lambd)
       THEN /\ prox' = Zeros(Len(x))
            /\ pc' = ProxReturnTo
            /\ tol' = tol
       ELSE /\ prox' = prox
            /\ pc' = "get_root"
            /\ tol' = TolDefault
    /\ UNCHANGED <<entry, exc, x, lambd, alpha>>
    /\ UNCHANGED rootVars
    /\ UNCHANGED driverVars

\* lines 62-63
prox_max_norm_else ==
    /\ pc = "prox_else"
    /\ prox' = ProxValue(x, alpha)
    /\ pc' = ProxReturnTo
    /\ UNCHANGED <<entry, exc, x, lambd, tol, alpha>>
    /\ UNCHANGED rootVars
    /\ UNCHANGED driverVars

\* ---- proj_rank (lines 66-71) ----

SliceStart_plus1(n, rr) == IF rr >= 0 THEN Min2(rr + 1, n) ELSE Max2(n + rr + 1, 0)
\* line 70: S[r:] = 0 on an array of n values zeroes the indices from SliceStart
\* on (0-based): r itself when 0 <= r, clamped to n; n + r when r < 0, clamped to 0
SliceStart(n, rr) == IF rr >= 0 THEN Min2(rr, n) ELSE Max2(n + rr, 0)

\* lines 69-71 on the diagonal matrix with diagonal A.  Its singular values are
\* |A[i]|, which np.linalg.svd returns in descending order; S[r:] = 0 keeps the
\* first SliceStart of them.  Which of several entries of equal magnitude comes
\* first is up to the decomposition: every choice is a possible result.
proj_rank(A, rr) ==
    LET n == Len(A)
        s == SliceStart(n, rr)
        Kept == {K \in SUBSET (1..n) :
                    /\ Cardinality(K) = s
                    /\ \A i \in K : \A j \in (1..n) \ K : Abs(A[i]) >= Abs(A[j])}
    IN {[i \in 1..n |-> IF i \in K THEN A[i] ELSE 0] : K \in Kept}

\* ---- compute_low_rank_est (lines 86-110) and T (lines 74-83) ----

\* line 99: np.max(np.abs(X - D)) / np.max(np.abs(D)), kept as <<numerator, denominator>>
ErrMax(Xm, Dm) == <<MaxAbs(VSub(Xm, Dm)), MaxAbs(Dm)>>
\* line 100: norm(X - D, 'fro') / norm(D, 'fro'), kept as the pair of the squared norms
ErrFro(Xm, Dm) == <<SumSq(VSub(Xm, Dm)), SumSq(Dm)>>
\* line 101: np.linalg.matrix_rank(X): the number of non-zero singular values
matrix_rank(Xm) == Cardinality({i \in 1..Len(Xm) : Xm[i] # 0})
\* line 102: np.linalg.norm(X, ord='nuc'): the sum of the singular values
NucNorm(Xm) == L1(Xm)

\* np.zeros(iters) for the two ratio arrays (0.0 is kept as 0/1) and the two plain ones
ZeroRatios(n) == [i \in 1..n |-> <<0, 1>>]

InitZ_zero(Dm) == Zeros(Len(Dm))
\* line 93: Z = D.copy()
InitZ(Dm) == Dm

ForContinues_early == k < iters /\ (k = 0 \/ Z # Z_p)
\* line 95: for k in range(iters)
ForContinues == k < iters

\* lines 89-93: np.zeros(iters) raises ValueError for a negative iters
compute_low_rank_est_init ==
    /\ pc = "compute_low_rank_est"
    /\ IF iters < 0
       THEN /\ exc' = "ValueError"
            /\ pc' = "raised"
            /\ UNCHANGED <<err_max, err_fro, rank, norm, nwrites, Z>>
       ELSE /\ err_max' = ZeroRatios(iters)
            /\ err_fro' = ZeroRatios(iters)
            /\ rank' = Zeros(iters)
            /\ norm' = Zeros(iters)
            /\ nwrites' = Zeros(iters)
            /\ Z' = InitZ(D)
            /\ pc' = "for"
            /\ exc' = exc
    /\ UNCHANGED <<entry, x, lambd, tol, alpha, prox, gD, D, r, iters, k, Z_p, X, Xbound, nT>>
    /\ UNCHANGED rootVars

\* lines 95-97 and, in T, lines 81-82 up to the call of prox_max_norm:
\* Z_p = Z.copy(); X = proj_rank(Z, r); the argument 2 * X - Z - D is formed
\* with the D that T sees, the module-level one
compute_low_rank_est_for ==
    /\ pc = "for"
    /\ ForContinues
    /\ Z_p' = Z
    /\ \E P \in proj_rank(Z, r) :
          /\ X' = P
          /\ x' = VSub(VSub(VScale(2, P), Z), gD)
    /\ Xbound' = TRUE
    /\ nT' = nT + 1
    /\ pc' = "prox_max_norm"
    /\ UNCHANGED <<entry, exc, lambd, tol, alpha, prox, gD, D, r, iters, k, Z,
                   err_max, err_fro, rank, norm, nwrites>>
    /\ UNCHANGED rootVars

\* line 82 after the call: Z = Z + prox_max_norm(...) + D - X; line 83 and line 97
\* hand X, Z back; lines 99-102 write index k of the four arrays (1-based here);
\* the loop moves to the next k.  Lines 104-108 only print.
T_update ==
    /\ pc = "T_update"
    /\ Z' = VSub(VAdd(VAdd(Z, prox), gD), X)
    /\ err_max' = [err_max EXCEPT ![k + 1] = ErrMax(X, D)]
    /\ err_fro' = [err_fro EXCEPT ![k + 1] = ErrFro(X, D)]
    /\ rank' = [rank EXCEPT ![k + 1] = matrix_rank(X)]
    /\ norm' = [norm EXCEPT ![k + 1] = NucNorm(X)]
    /\ nwrites' = [nwrites EXCEPT ![k + 1] = @ + 1]
    /\ k' = k + 1
    /\ pc' = "for"
    /\ UNCHANGED <<entry, exc, x, lambd, tol, alpha, prox, gD, D, r, iters, Z_p, X, Xbound, nT>>
    /\ UNCHANGED rootVars

\* line 110: return X, ...; X is unbound when the loop body never ran
compute_low_rank_est_return ==
    /\ pc = "for"
    /\ ~ForContinues
    /\ IF Xbound
       THEN /\ pc' = "done"
            /\ exc' = exc
       ELSE /\ pc' = "raised"
            /\ exc' = "UnboundLocalError"
    /\ UNCHANGED <<entry, x, lambd, tol, alpha, prox>>
    /\ UNCHANGED rootVars
    /\ UNCHANGED driverVars

\* ---- the calls made from outside ----

Vectors == [1..N -> (-MaxVal)..MaxVal]
Diagonals == [1..N -> (-MaxVal)..MaxVal]
Lambds == (-1)..MaxLambd
\* what the module-level D may hold when the driver is called with Dm: the same
\* matrix (the notebook's own call, line 145) or another one
GlobalDs(Dm) == {Dm} \cup {[i \in 1..N |-> v] : v \in 0..1}

NoDriver ==
    /\ gD = <<>> /\ D = <<>> /\ r = 0 /\ iters = 0 /\ k = 0
    /\ Z = <<>> /\ Z_p = <<>> /\ X = <<>> /\ Xbound = FALSE
    /\ err_max = <<>> /\ err_fro = <<>> /\ rank = <<>> /\ norm = <<>>
    /\ nT = 0 /\ nwrites = <<>>

NoRoot == t_lo = 0 /\ t_hi = 0 /\ t = 0 /\ res = 0 /\ converge = FALSE /\ alpha = 0

\* get_root(x, lambd, tol) called directly
InitGetRoot ==
    /\ entry = "get_root" /\ pc = "get_root" /\ exc = "none"
    /\ x \in Vectors /\ lambd \in Lambds /\ tol \in Tols
    /\ prox = <<>>
    /\ NoRoot /\ NoDriver

\* prox_max_norm(x, lambd) called directly
InitProx ==
    /\ entry = "prox_max_norm" /\ pc = "prox_max_norm" /\ exc = "none"
    /\ x \in Vectors /\ lambd \in Lambds /\ tol = TolDefault
    /\ prox = <<>>
    /\ NoRoot /\ NoDriver

\* compute_low_rank_est(D, r, lambd, iters=iters) called
InitDriver ==
    /\ entry = "compute_low_rank_est" /\ pc = "compute_low_rank_est" /\ exc = "none"
    /\ D \in Diagonals /\ gD \in GlobalDs(D)
    /\ r \in (-1)..(N + 1) /\ lambd \in Lambds /\ iters \in (-1)..MaxIters
    /\ x = <<>> /\ tol = TolDefault /\ prox = <<>>
    /\ NoRoot
    /\ k = 0 /\ Z = <<>> /\ Z_p = <<>> /\ X = <<>> /\ Xbound = FALSE
    /\ err_max = <<>> /\ err_fro = <<>> /\ rank = <<>> /\ norm = <<>>
    /\ nT = 0 /\ nwrites = <<>>

Init == InitGetRoot \/ InitProx \/ InitDriver

Next ==
    \/ get_root_init
    \/ get_root_while
    \/ get_root_body
    \/ get_root_return
    \/ prox_max_norm_test
    \/ prox_max_norm_else
    \/ compute_low_rank_est_init
    \/ compute_low_rank_est_for
    \/ T_update
    \/ compute_low_rank_est_return

Spec == Init /\ [][Next]_vars

\* The code is one sequential thread: whenever a statement can run, it runs.
FairSpec == Spec /\ WF_vars(Next)

\* ---- the claims ----

IsDriver == entry = "compute_low_rank_est"
\* the caller's precondition of get_root
RootPre == L1(x) > lambd /\ lambd > 0
\* get_root has returned alpha and x, lambd, tol are still those of the call
RootReturned == (entry = "get_root" /\ pc = "done") \/ pc = "prox_else"
\* prox_max_norm has returned prox and x, lambd are still those of the call
ProxReturned == (entry = "prox_max_norm" /\ pc = "done") \/ pc = "T_update"

\* |rs| < lam / (tl[1] * tl[2]), by division: for rs # 0 and lam >= 1 it says
\* tl[1] * tl[2] <= (lam - 1) \div |rs|
WithinTol(rs, lam, tl) ==
    IF rs = 0 THEN lam > 0
    ELSE lam >= 1 /\ tl[2] <= (((lam - 1) \div Abs(rs)) \div tl[1])

\* C1: for every x and every lambda >= 0 (lambda = 0 with x # 0 included), a call
\* prox_max_norm(x, lambda) terminates and returns a matrix of the shape of x.
C1_ProxTerminates ==
    (entry = "prox_max_norm" /\ pc = "prox_max_norm" /\ lambd >= 0)
        ~> (pc = "done" /\ Len(prox) = Len(x))

\* C2: for every x and lambda > 0 with sum|x_i| > lambda, the bisection loop of
\* get_root is left after a bounded number of iterations, also when the residual
\* test is never met.
C2_BisectionTerminates ==
    (pc = "get_root" /\ RootPre) ~> (pc \notin {"get_root", "while", "body"})

\* C3: for sum|x_i| > lambda > 0, the alpha that get_root returns satisfies
\* |sum_i max(|x_i| - alpha, 0) - lambda| < tol * lambda and 0 <= alpha <= max|x_i|.
C3_RootWithinTol ==
    (RootReturned /\ RootPre) =>
        /\ WithinTol(Residual(x, alpha, lambd), lambd, tol)
        /\ 0 <= alpha
        /\ alpha <= MaxAbs(x)

\* a returned root whose residual is not zero: the tolerance is what let it through
C3_Witness ==
    /\ entry = "get_root" /\ pc = "done" /\ RootPre
    /\ Residual(x, alpha, lambd) # 0
    /\ 0 < alpha

\* C4: when sum|x_i| <= lambda (equality included) prox_max_norm returns the zero
\* matrix of the shape of x and get_root is not entered; get_root is entered only
\* when sum|x_i| > lambda.
C4_ZeroWithoutRoot ==
    entry # "get_root" =>
        /\ pc \in {"get_root", "while", "body", "prox_else"} => L1(x) > lambd
        /\ (ProxReturned /\ L1(x) <= lambd) => prox = Zeros(Len(x))

\* the boundary: a non-zero x whose L1 norm equals lambda, answered by zeros
C4_Witness ==
    /\ entry = "prox_max_norm" /\ pc = "done"
    /\ L1(x) = lambd /\ lambd > 0
    /\ prox = Zeros(Len(x))

\* a call of the driver as the notebook makes it: the inputs within the stated
\* ranges, and the module-level D the matrix that is passed
ValidCall == IsDriver /\ 0 <= r /\ r <= Len(D) /\ lambd > 0 /\ iters >= 1 /\ gD = D

\* the driver has allocated its arrays
DriverStarted == IsDriver /\ pc # "compute_low_rank_est" /\ exc # "ValueError"

C5_State ==
    DriverStarted =>
        /\ Len(err_max) = iters /\ Len(err_fro) = iters
        /\ Len(rank) = iters /\ Len(norm) = iters
        /\ \A j \in 1..iters : nwrites[j] = (IF j <= k THEN 1 ELSE 0)
        /\ nT <= iters
        /\ pc = "done" => (nT = iters /\ k = iters)

C5_Step ==
    \A j \in DOMAIN nwrites :
        nwrites[j] >= 1 =>
            /\ err_max'[j] = err_max[j] /\ err_fro'[j] = err_fro[j]
            /\ rank'[j] = rank[j] /\ norm'[j] = norm[j]

\* C5: compute_low_rank_est applies the step exactly iters times, with no early
\* exit; on return the four series have length iters, index k was written once,
\* in iteration k, and a written entry is never changed.
C5_FullBudget == []C5_State /\ [][C5_Step]_vars

\* the iteration had stopped moving (Z = Z_p, equal diagnostics) and the whole
\* budget was spent all the same
C5_Witness ==
    /\ ValidCall /\ pc = "done" /\ iters >= 2 /\ nT = iters
    /\ r < Len(D) /\ X # D
    /\ Z = Z_p
    /\ err_max[iters] = err_max[iters - 1]
    /\ \A j \in 1..iters : nwrites[j] = 1

\* C6: the step forms prox_max_norm(2 * X_new - Z - D, lambda) with the D that was
\* passed to the driver.
C6_StepUsesDriverD ==
    (IsDriver /\ pc \in {"prox_max_norm", "get_root", "while", "body", "prox_else", "T_update"})
        => x = VSub(VSub(VScale(2, X), Z), D)

\* C7: for 0 <= r <= min(m, n) every X the step produces, and the X returned, has
\* at most r non-zero singular values and the shape of D; Z keeps the shape of D.
C7_RankAtMostR ==
    (IsDriver /\ 0 <= r /\ r <= Len(D)) =>
        /\ Xbound => (matrix_rank(X) <= r /\ Len(X) = Len(D))
        /\ DriverStarted => Len(Z) = Len(D)

\* a returned X of rank r cut from a splitting variable of higher rank
C7_Witness ==
    /\ ValidCall /\ pc = "done" /\ 0 < r /\ r < Len(D)
    /\ matrix_rank(X) = r
    /\ matrix_rank(Z_p) > r

BadInput == r < 0 \/ r > Len(D) \/ lambd <= 0 \/ iters < 1

\* C8: with r < 0, r > min(m, n), lambda <= 0 or iters < 1 the driver fails with
\* an error before the first step is applied and writes no diagnostic entry.
C8_FailsFast ==
    (IsDriver /\ BadInput) =>
        /\ nT = 0
        /\ pc # "done"
        /\ \A j \in DOMAIN nwrites : nwrites[j] = 0

InLoop == pc \in {"while", "body"} /\ RootPre

C9_Bracket ==
    InLoop =>
        /\ 0 <= t_lo /\ t_lo <= t_hi /\ t_hi <= MaxAbs(x)
        /\ Residual(x, t_lo, lambd) >= 0
        /\ Residual(x, t_hi, lambd) <= 0

\* what one iteration does to the interval, apart from its width
C9_Moves ==
    /\ t_lo' >= t_lo /\ t_hi' <= t_hi
    /\ Residual(x, t', lambd) > 0 => (t_lo' = t' /\ t_hi' = t_hi)
    /\ Residual(x, t', lambd) <= 0 => (t_hi' = t' /\ t_lo' = t_lo)

C9_StepExact ==
    (pc = "body" /\ RootPre) =>
        /\ C9_Moves
        /\ 2 * t' = t_lo + t_hi
        /\ 2 * (t_hi' - t_lo') = t_hi - t_lo

C9_StepRounded ==
    (pc = "body" /\ RootPre) =>
        /\ C9_Moves
        /\ t_lo <= t' /\ t' <= t_hi
        /\ Abs(2 * t' - (t_lo + t_hi)) <= 1
        /\ t_hi' - t_lo' <= t_hi - t_lo
        /\ 2 * (t_hi' - t_lo') <= (t_hi - t_lo) + 1
        /\ (t_lo + t_hi) % 2 = 0 => 2 * (t_hi' - t_lo') = t_hi - t_lo

\* C9 as stated: in get_root with sum|x_i| > lambda > 0 the interval brackets the
\* root within [0, max|x_i|], t is the midpoint, t_lo moves to t exactly when
\* f(t) > 0 and otherwise t_hi does, and the width halves in every iteration.
C9_WidthHalves == []C9_Bracket /\ [][C9_StepExact]_vars

\* C9 as amended: the same, with t the midpoint rounded to a representable value;
\* the width never grows, is at most half the previous width rounded up by one
\* unit, and is exactly halved whenever the midpoint is representable.
C9_WidthHalvesRounded == []C9_Bracket /\ [][C9_StepRounded]_vars

\* t_lo and t_hi are neighbours, an iteration has run from there and left them so
C9_Witness ==
    /\ pc = "while" /\ RootPre /\ ~converge
    /\ t_hi = t_lo + 1
    /\ t \in {t_lo, t_hi}
    /\ res = Residual(x, t, lambd) /\ res # 0

\* C10: the X of diagnostic entry k is proj_rank(Z_k, r), Z_k the splitting
\* variable before the k-th update and Z_0 = D; entry 0 holds the error metrics
\* of proj_rank(D, r) whatever lambda is; the X returned is the projection of
\* Z_(iters-1), not of the Z computed last.
C10_ProjectsBeforeUpdate ==
    IsDriver =>
        /\ Xbound => X \in proj_rank(Z_p, r)
        /\ pc = "T_update" => Z = Z_p
        /\ nT = 1 => Z_p = D
        /\ k >= 1 => \E P \in proj_rank(D, r) :
                        /\ err_max[1] = ErrMax(P, D) /\ err_fro[1] = ErrFro(P, D)
                        /\ rank[1] = matrix_rank(P) /\ norm[1] = NucNorm(P)
        /\ (k >= 1 /\ pc \in {"for", "done"}) =>
                        /\ err_max[k] = ErrMax(X, D) /\ err_fro[k] = ErrFro(X, D)
                        /\ rank[k] = matrix_rank(X) /\ norm[k] = NucNorm(X)

\* a return where the last update moved Z and the X returned is not a projection of it
C10_Witness ==
    /\ ValidCall /\ pc = "done" /\ nT = iters
    /\ Z # Z_p
    /\ X \in proj_rank(Z_p, r)
    /\ X \notin proj_rank(Z, r)

====
